---- MODULE Spec2Model ----
(***************************************************************************)
(* Sanskrit RAG system: document loader, vector store, performance logger  *)
(* and the pipeline that wires them together.                              *)
(*                                                                         *)
(* Texts are sequences of one-character strings.  An embedding is a short  *)
(* tuple of naturals instead of 384 floats; squared Euclidean distance is  *)
(* computed on it exactly.                                                 *)
(***************************************************************************)
EXTENDS Integers, Sequences, FiniteSets, TLC

VARIABLES
    data_dir,      \* the directory the loader reads: does it exist, its listing
    documents,     \* SanskritDocumentLoader.documents
    loaderRet,     \* the last value a loader method returned, with its arguments
    index,         \* SanskritVectorStore.index: absent, or the vectors it holds
    chunks,        \* SanskritVectorStore.chunks
    fs,            \* files written by the vector store: path -> contents
    storeRet,      \* outcome of the last vector store call
    built,         \* has a build_index call of this store object completed
    logs,          \* PerformanceLogger.logs
    log_file,      \* contents of performance_log.json
    queryRet,      \* outcome of the last SanskritRAGPipeline.query call
    statsRet       \* outcome of the last PerformanceLogger.print_statistics call

loaderVars == <<data_dir, documents, loaderRet>>
storeVars == <<index, chunks, fs, storeRet, built>>
pipeVars == <<logs, log_file, queryRet, statsRet>>
vars == <<data_dir, documents, loaderRet, index, chunks, fs, storeRet, built,
          logs, log_file, queryRet, statsRet>>

(***************************************************************************)
(* Bounds                                                                  *)
(***************************************************************************)
MaxLen == 6          \* longest content of a lone file
MaxShort == 3        \* longest content of a file in a two-file directory
MaxDocs == 4         \* longest self.documents (repeated load_documents calls append)
MaxChunkSize == 5    \* largest chunk_size argument tried

(***************************************************************************)
(* Python string operations                                                *)
(***************************************************************************)
Chars == {"a", " ", "\n"}
Whitespace == {" ", "\n"}

Min(a, b) == IF a <= b THEN a ELSE b

StringsUpTo(alphabet, n) == UNION {[1..m -> alphabet] : m \in 0..n}

RECURSIVE lstrip(_)
lstrip(s) ==
    IF s = <<>> THEN s
    ELSE IF Head(s) \in Whitespace THEN lstrip(Tail(s)) ELSE s

RECURSIVE rstrip(_)
rstrip(s) ==
    IF s = <<>> THEN s
    ELSE IF s[Len(s)] \in Whitespace THEN rstrip(SubSeq(s, 1, Len(s) - 1)) ELSE s

\* str.strip()
strip(s) == rstrip(lstrip(s))

\* position of the first occurrence of sep in s, 0 if there is none
find(s, sep) ==
    LET hits == {i \in 1..(Len(s) - Len(sep) + 1) :
                    SubSeq(s, i, i + Len(sep) - 1) = sep}
    IN IF hits = {} THEN 0 ELSE CHOOSE i \in hits : \A j \in hits : i <= j

\* str.split(sep): left to right, non-overlapping, empty pieces kept
RECURSIVE split(_, _)
split(s, sep) ==
    LET i == find(s, sep)
    IN IF i = 0 THEN <<s>>
       ELSE <<SubSeq(s, 1, i - 1)>> \o split(SubSeq(s, i + Len(sep), Len(s)), sep)

\* str.split() without argument: the maximal runs of non-whitespace
RECURSIVE split_ws(_)
split_ws(s) ==
    LET t == lstrip(s)
        ends == {i \in 1..Len(t) : t[i] \in Whitespace}
        e == IF ends = {} THEN Len(t) + 1
             ELSE CHOOSE i \in ends : \A j \in ends : i <= j
    IN IF t = <<>> THEN <<>>
       ELSE <<SubSeq(t, 1, e - 1)>> \o split_ws(SubSeq(t, e, Len(t)))

\* sep.join(parts)
RECURSIVE join(_, _)
join(parts, sep) ==
    IF parts = <<>> THEN <<>>
    ELSE IF Len(parts) = 1 THEN parts[1]
    ELSE parts[1] \o sep \o join(Tail(parts), sep)

NL == <<"\n">>
NLNL == <<"\n", "\n">>
SP == <<" ">>

(***************************************************************************)
(* Document loader                                                         *)
(***************************************************************************)
TxtA == <<"a", ".", "t", "x", "t">>
TxtB == <<"b", ".", "t", "x", "t">>
NotesMd == <<"n", ".", "m", "d">>
DotTxt == <<".", "t", "x", "t">>

\* filename.endswith('.txt')
endswith(s, suffix) ==
    /\ Len(s) >= Len(suffix)
    /\ SubSeq(s, Len(s) - Len(suffix) + 1, Len(s)) = suffix

\* _extract_metadata(filename, content)
extract_metadata(filename, content) ==
    LET lines == split(strip(content), NL)
        title == IF lines # <<>> THEN lines[1] ELSE filename
    IN [title |-> join(split_ws(title), SP),
        source |-> filename,
        length |-> Len(content),
        num_lines |-> Len(lines)]

\* the loop of load_documents over os.listdir: one Document per readable
\* .txt file, appended to what self.documents already holds
RECURSIVE load_files(_, _)
load_files(files, docs) ==
    IF files = <<>> THEN docs
    ELSE LET f == Head(files)
         IN IF endswith(f.filename, DotTxt) /\ f.readable
            THEN load_files(Tail(files),
                   Append(docs, [filename |-> f.filename,
                                 content |-> f.content,
                                 metadata |-> extract_metadata(f.filename, f.content)]))
            ELSE load_files(Tail(files), docs)

\* what load_documents returns and leaves in self.documents
load_documents(dir, docs) ==
    IF ~dir.exists THEN [ret |-> <<>>, documents |-> docs]
    ELSE LET d == load_files(dir.files, docs)
         IN [ret |-> d, documents |-> d]

\* the chunk appended at lines 78-84 and 92-98
\* a chunk that is numbered 0 wherever it falls in its document
make_chunk_unnumbered(current_chunk, meta, chunk_count) ==
    [content |-> strip(current_chunk),
     metadata |-> [title |-> meta.title, source |-> meta.source,
                   length |-> meta.length, num_lines |-> meta.num_lines,
                   chunk_id |-> 0]]

\* the dictionary appended at lines 78-84 and 91-97
make_chunk(current_chunk, meta, chunk_count) ==
    [content |-> strip(current_chunk),
     metadata |-> [title |-> meta.title, source |-> meta.source,
                   length |-> meta.length, num_lines |-> meta.num_lines,
                   chunk_id |-> chunk_count]]

\* the test of line 77 with the incoming paragraph left out of the sum
must_flush_buffer_only(current_chunk, para, chunk_size) ==
    Len(current_chunk) > chunk_size /\ current_chunk # <<>>

\* the test of line 77
must_flush(current_chunk, para, chunk_size) ==
    Len(current_chunk) + Len(para) > chunk_size /\ current_chunk # <<>>

\* a flush that restarts the buffer empty, losing the paragraph in hand
after_flush_empty(para) == <<>>

\* the buffer after a flush, line 86
after_flush(para) == para \o NLNL

\* the loop over the paragraphs of one document, lines 71-98
RECURSIVE chunk_paragraphs(_, _, _, _, _, _)
chunk_paragraphs(paragraphs, current_chunk, chunk_count, out, meta, chunk_size) ==
    IF paragraphs = <<>>
    THEN IF strip(current_chunk) # <<>>
         THEN Append(out, make_chunk(current_chunk, meta, chunk_count))
         ELSE out
    ELSE LET para == strip(Head(paragraphs))
         IN IF para = <<>>
            THEN chunk_paragraphs(Tail(paragraphs), current_chunk, chunk_count,
                                  out, meta, chunk_size)
            ELSE IF must_flush(current_chunk, para, chunk_size)
            THEN chunk_paragraphs(Tail(paragraphs), after_flush(para), chunk_count + 1,
                                  Append(out, make_chunk(current_chunk, meta, chunk_count)),
                                  meta, chunk_size)
            ELSE chunk_paragraphs(Tail(paragraphs), current_chunk \o para \o NLNL,
                                  chunk_count, out, meta, chunk_size)

\* chunk_documents(chunk_size): the chunks of every document, in order
RECURSIVE chunk_documents(_, _, _)
chunk_documents(docs, out, chunk_size) ==
    IF docs = <<>> THEN out
    ELSE chunk_documents(Tail(docs),
            chunk_paragraphs(split(Head(docs).content, NLNL), <<>>, 0, out,
                             Head(docs).metadata, chunk_size),
            chunk_size)

File(name, readable, content) ==
    [filename |-> name, readable |-> readable, content |-> content]

\* the directories the loader is run on
Dirs ==
    {[exists |-> FALSE, files |-> <<>>], [exists |-> TRUE, files |-> <<>>]}
    \cup {[exists |-> TRUE, files |-> <<File(TxtA, TRUE, c)>>] :
            c \in StringsUpTo(Chars, MaxLen)}
    \cup {[exists |-> TRUE, files |-> <<File(TxtA, r1, c1), File(n2, r2, c2)>>] :
            r1 \in BOOLEAN, r2 \in BOOLEAN, n2 \in {TxtB, NotesMd},
            c1 \in StringsUpTo({"a", "\n"}, MaxShort),
            c2 \in StringsUpTo({"a", "\n"}, MaxShort)}

NoRet == [op |-> "none", chunk_size |-> 0, value |-> <<>>]

LoadDocuments ==
    /\ LET r == load_documents(data_dir, documents)
       IN /\ Len(r.documents) <= MaxDocs
          /\ documents' = r.documents
          /\ loaderRet' = [op |-> "load", chunk_size |-> 0, value |-> r.ret]
    /\ UNCHANGED data_dir

ChunkDocuments ==
    /\ \E chunk_size \in 0..MaxChunkSize :
          loaderRet' = [op |-> "chunk", chunk_size |-> chunk_size,
                        value |-> chunk_documents(documents, <<>>, chunk_size)]
    /\ UNCHANGED <<data_dir, documents>>

(***************************************************************************)
(* Vector store                                                            *)
(***************************************************************************)
MaxChunks == 2       \* longest chunk list handed to build_index directly
MaxK == 2            \* largest k tried

CachePath == "embeddings.pkl"
IndexPath == "index.faiss"
Paths == {CachePath, IndexPath}
NoPath == "None"

\* the distance FAISS reports at a position it could not fill (label -1)
FltMax == 1000000000

CountA(s) == Cardinality({i \in 1..Len(s) : s[i] = "a"})

\* SentenceTransformer.encode of one text
Embed(text) == <<CountA(text), Len(text)>>

\* SentenceTransformer.encode of a list of texts
encode(texts) == [i \in 1..Len(texts) |-> Embed(texts[i])]

\* squared Euclidean distance, the metric of IndexFlatL2
dist2(u, v) == (u[1] - v[1]) * (u[1] - v[1]) + (u[2] - v[2]) * (u[2] - v[2])

NoFile == [kind |-> "none", vectors |-> <<>>, origin |-> <<>>]

\* a dump that keeps the first vector only
pickle_dump_first(embeddings, chunk_list) ==
    [kind |-> "pickle", vectors |-> SubSeq(embeddings, 1, Min(1, Len(embeddings))),
     origin |-> chunk_list]

\* pickle.dump(embeddings, f); origin remembers the chunk list embedded
pickle_dump(embeddings, chunk_list) ==
    [kind |-> "pickle", vectors |-> embeddings, origin |-> chunk_list]

\* faiss.write_index(self.index, index_path)
write_index(vectors) == [kind |-> "faiss", vectors |-> vectors, origin |-> <<>>]

NoIndex == [present |-> FALSE, vectors |-> <<>>]
IndexOf(vectors) == [present |-> TRUE, vectors |-> vectors]

\* build_index(chunks, cache_path) run on the store st = [index, chunks, fs].
\* fail names the collaborator that raises: "load_model" (line 33), "encode"
\* (line 48), "add" (line 66, an empty embedding array has no second
\* dimension) or "none"
build_index(st, chunk_list, cache_path, fail) ==
    LET texts == [i \in 1..Len(chunk_list) |-> chunk_list[i].content]
        cached == cache_path # NoPath /\ st.fs[cache_path].kind # "none"
        embeddings == IF cached THEN st.fs[cache_path].vectors ELSE encode(texts)
        fs1 == IF ~cached /\ cache_path # NoPath
               THEN [st.fs EXCEPT ![cache_path] = pickle_dump(embeddings, chunk_list)]
               ELSE st.fs
    IN IF fail = "load_model"
       THEN [index |-> st.index, chunks |-> st.chunks, fs |-> st.fs,
             raised |-> TRUE, cache |-> "none"]
       ELSE IF cached /\ st.fs[cache_path].kind # "pickle"
       THEN [index |-> st.index, chunks |-> chunk_list, fs |-> st.fs,
             raised |-> TRUE, cache |-> "none"]
       ELSE IF ~cached /\ fail = "encode"
       THEN [index |-> st.index, chunks |-> chunk_list, fs |-> st.fs,
             raised |-> TRUE, cache |-> "none"]
       ELSE [index |-> IndexOf(IF fail = "add" THEN <<>> ELSE embeddings),
             chunks |-> chunk_list, fs |-> fs1,
             raised |-> (fail = "add"),
             cache |-> IF cached THEN "loaded"
                       ELSE IF cache_path # NoPath THEN "written" ELSE "none"]

\* the failures build_index can meet on this input
BuildFailures(st, chunk_list, cache_path) ==
    LET cached == cache_path # NoPath /\ st.fs[cache_path].kind # "none"
        embeddings == IF cached THEN st.fs[cache_path].vectors
                      ELSE encode([i \in 1..Len(chunk_list) |-> chunk_list[i].content])
    IN {"none", "load_model"}
       \cup (IF cached THEN {} ELSE {"encode"})
       \cup (IF embeddings = <<>> THEN {"add"} ELSE {})

\* IndexFlatL2.search(query_embedding, k): the labels (0-based) and distances
\* of the k nearest vectors, nearest first, positions beyond ntotal filled
\* with label -1
faiss_search(vectors, qv, k) ==
    LET n == Len(vectors)
        d(i) == dist2(vectors[i], qv)
        rank(j) == 1 + Cardinality({i \in 1..n : d(i) < d(j) \/ (d(i) = d(j) /\ i < j)})
        at(r) == CHOOSE j \in 1..n : rank(j) = r
    IN [r \in 1..k |-> IF r <= n THEN [idx |-> at(r) - 1, dist |-> d(at(r))]
                                ELSE [idx |-> -1, dist |-> FltMax]]

\* the test of line 87
keep_hit(idx, chunk_list) == idx < Len(chunk_list)

\* the loop of lines 85-93; self.chunks[idx] follows Python indexing, where
\* a negative idx counts from the end and one out of range raises IndexError
RECURSIVE collect_results(_, _, _)
collect_results(hits, chunk_list, out) ==
    IF hits = <<>> THEN [error |-> "none", results |-> out]
    ELSE LET idx == Head(hits).idx
             pos == IF idx >= 0 THEN idx + 1 ELSE Len(chunk_list) + idx + 1
         IN IF ~keep_hit(idx, chunk_list)
            THEN collect_results(Tail(hits), chunk_list, out)
            ELSE IF pos < 1
            THEN [error |-> "IndexError", results |-> <<>>]
            ELSE collect_results(Tail(hits), chunk_list,
                    Append(out, [content |-> chunk_list[pos].content,
                                 metadata |-> chunk_list[pos].metadata,
                                 distance |-> Head(hits).dist,
                                 similarity_score |->
                                     [num |-> 1, den |-> 1 + Head(hits).dist]]))

\* search(query, k) on a store with this index and these chunks; modelFails
\* says that loading the model or encoding the query raises
search(idx, chunk_list, query, k, modelFails) ==
    IF ~idx.present THEN [error |-> "ValueError", results |-> <<>>]
    ELSE IF modelFails THEN [error |-> "model", results |-> <<>>]
    ELSE collect_results(faiss_search(idx.vectors, Embed(query), k), chunk_list, <<>>)

\* save_index(index_path): what the file system holds afterwards
save_index(idx, files, index_path) ==
    IF idx.present THEN [files EXCEPT ![index_path] = write_index(idx.vectors)]
    ELSE files

\* load_index(index_path): faiss.read_index raises on a file that is no
\* FAISS index; a missing file is reported and nothing changes
load_index(idx, files, index_path) ==
    IF files[index_path].kind = "none" THEN [index |-> idx, raised |-> FALSE]
    ELSE IF files[index_path].kind = "faiss"
    THEN [index |-> IndexOf(files[index_path].vectors), raised |-> FALSE]
    ELSE [index |-> idx, raised |-> TRUE]

Queries == {<<"a", "a">>}

\* the text "a" * n
RECURSIVE Repeat(_)
Repeat(n) == IF n = 0 THEN <<>> ELSE <<"a">> \o Repeat(n - 1)

\* the chunk lists handed to build_index: the chunks chunk_documents makes of
\* one document of n <= MaxChunks paragraphs "a", "aa", ... in ascending or
\* in descending order, one chunk per paragraph
StoreChunkLists ==
    {chunk_documents(<<[filename |-> TxtA, content |-> join(ps, NLNL),
                        metadata |-> extract_metadata(TxtA, join(ps, NLNL))]>>,
                     <<>>, 1) :
        ps \in UNION {{[i \in 1..n |-> Repeat(i)], [i \in 1..n |-> Repeat(n + 1 - i)]} :
                        n \in 0..MaxChunks}}

StoreRet(op, raised, error, cache, cache_path, query, k, results) ==
    [op |-> op, raised |-> raised, error |-> error, cache |-> cache,
     cache_path |-> cache_path, query |-> query, k |-> k, results |-> results]

NoStoreRet == StoreRet("init", FALSE, "none", "none", NoPath, <<>>, 0, <<>>)

\* SanskritVectorStore() in a process that finds no file on disk, or the
\* index file an earlier process left with save_index
InitStore ==
    /\ index = NoIndex
    /\ chunks = <<>>
    /\ fs \in {[p \in Paths |-> NoFile]}
            \cup {[p \in Paths |-> IF p = IndexPath
                                   THEN write_index(encode([i \in 1..Len(cl) |-> cl[i].content]))
                                   ELSE NoFile] : cl \in StoreChunkLists}
    /\ storeRet = NoStoreRet
    /\ built = FALSE
    /\ data_dir = [exists |-> FALSE, files |-> <<>>]
    /\ documents = <<>>
    /\ loaderRet = NoRet
    /\ logs = <<>>
    /\ log_file = [state |-> "missing", entries |-> <<>>]
    /\ queryRet = [calls |-> 0, raised |-> FALSE, envelope |-> <<>>, k |-> 0,
                   use_llm |-> FALSE]
    /\ statsRet = [op |-> "none", raised |-> FALSE, logs |-> <<>>, stats |-> <<>>]

\* SanskritVectorStore(): a new store object; the files on disk stay
NewStore ==
    /\ index' = NoIndex
    /\ chunks' = <<>>
    /\ storeRet' = NoStoreRet
    /\ built' = FALSE
    /\ UNCHANGED fs

BuildIndex ==
    \E chunk_list \in StoreChunkLists, cache_path \in {CachePath, NoPath} :
      \E fail \in BuildFailures([index |-> index, chunks |-> chunks, fs |-> fs],
                                chunk_list, cache_path) :
        LET r == build_index([index |-> index, chunks |-> chunks, fs |-> fs],
                             chunk_list, cache_path, fail)
        IN /\ index' = r.index
           /\ chunks' = r.chunks
           /\ fs' = r.fs
           /\ built' = (built \/ ~r.raised)
           /\ storeRet' = StoreRet("build", r.raised, IF r.raised THEN fail ELSE "none",
                                   r.cache, cache_path, <<>>, 0, <<>>)

Search ==
    \E query \in Queries, k \in 1..MaxK, modelFails \in BOOLEAN :
        LET r == search(index, chunks, query, k, modelFails)
        IN /\ storeRet' = StoreRet("search", r.error # "none", r.error, "none", NoPath,
                                   query, k, r.results)
           /\ UNCHANGED <<index, chunks, fs, built>>

SaveIndex ==
    \E index_path \in Paths :
        /\ fs' = save_index(index, fs, index_path)
        /\ storeRet' = StoreRet("save", FALSE, "none", "none", index_path, <<>>, 0, <<>>)
        /\ UNCHANGED <<index, chunks, built>>

LoadIndex ==
    \E index_path \in Paths :
        LET r == load_index(index, fs, index_path)
        IN /\ index' = r.index
           /\ storeRet' = StoreRet("load", r.raised,
                                   IF r.raised THEN "read_index" ELSE "none",
                                   "none", index_path, <<>>, 0, <<>>)
           /\ UNCHANGED <<chunks, fs, built>>

(***************************************************************************)
(* Performance logger                                                      *)
(***************************************************************************)
MaxQueries == 2      \* query calls on one pipeline

MissingLog == [state |-> "missing", entries |-> <<>>]
CorruptLog == [state |-> "corrupt", entries |-> <<>>]
ValidLog(entries) == [state |-> "valid", entries |-> entries]

\* _load_existing_logs: a missing or unparsable file leaves self.logs empty
load_existing_logs(file) == IF file.state = "valid" THEN file.entries ELSE <<>>

\* round(latency, 3): elapsed time is counted in tenths of a millisecond and
\* rounded half-to-even to whole milliseconds
round3(elapsed) ==
    LET q == elapsed \div 10
        r == elapsed % 10
    IN IF r < 5 THEN q
       ELSE IF r > 5 THEN q + 1
       ELSE IF q % 2 = 0 THEN q ELSE q + 1

\* the entry built at lines 32-38 (the timestamp is left out)
log_entry(query, latency, num_docs, success) ==
    [query |-> query, latency_seconds |-> round3(latency),
     num_docs_retrieved |-> num_docs, success |-> success]

\* _save_logs: write is "ok", "unwritten" (makedirs or open raises) or
\* "truncated" (the dump raises after the file was opened for writing)
save_logs(entries, file, write) ==
    IF write = "ok" THEN [log_file |-> ValidLog(entries), raised |-> FALSE]
    ELSE IF write = "unwritten" THEN [log_file |-> file, raised |-> TRUE]
    ELSE [log_file |-> CorruptLog, raised |-> TRUE]

\* log_query: append, then save
log_query(entries, file, query, latency, num_docs, success, write) ==
    LET appended == Append(entries, log_entry(query, latency, num_docs, success))
        saved == save_logs(appended, file, write)
    IN [logs |-> appended, log_file |-> saved.log_file, raised |-> saved.raised]

Writes == {"ok", "unwritten", "truncated"}

RECURSIVE SumSeq(_)
SumSeq(s) == IF s = <<>> THEN 0 ELSE Head(s) + SumSeq(Tail(s))

RECURSIVE SelectSuccessful(_)
SelectSuccessful(entries) ==
    IF entries = <<>> THEN <<>>
    ELSE IF Head(entries).success
    THEN <<Head(entries)>> \o SelectSuccessful(Tail(entries))
    ELSE SelectSuccessful(Tail(entries))

MinOf(s) == CHOOSE x \in {s[i] : i \in 1..Len(s)} : \A i \in 1..Len(s) : x <= s[i]
MaxOf(s) == CHOOSE x \in {s[i] : i \in 1..Len(s)} : \A i \in 1..Len(s) : x >= s[i]

\* get_statistics; a quotient is kept as numerator and denominator
get_statistics(entries) ==
    LET successful == SelectSuccessful(entries)
        latencies == [i \in 1..Len(successful) |-> successful[i].latency_seconds]
    IN IF entries = <<>>
       THEN [total_queries |-> 0, average_latency |-> [num |-> 0, den |-> 1],
             success_rate |-> [num |-> 0, den |-> 1]]
       ELSE [total_queries |-> Len(entries),
             successful_queries |-> Len(successful),
             average_latency |-> IF latencies # <<>>
                                 THEN [num |-> SumSeq(latencies), den |-> Len(latencies)]
                                 ELSE [num |-> 0, den |-> 1],
             min_latency |-> IF latencies # <<>> THEN MinOf(latencies) ELSE 0,
             max_latency |-> IF latencies # <<>> THEN MaxOf(latencies) ELSE 0,
             success_rate |-> [num |-> Len(successful) * 100, den |-> Len(entries)]]

\* the keys print_statistics reads, lines 74-79
PrintedKeys ==
    {"total_queries", "successful_queries", "average_latency", "min_latency",
     "max_latency", "success_rate"}

\* print_statistics: stats[key] raises KeyError for a key the dictionary of
\* get_statistics does not hold
print_statistics(entries) ==
    [stats |-> get_statistics(entries),
     raised |-> ~(PrintedKeys \subseteq DOMAIN get_statistics(entries))]

NoStatsRet == [op |-> "none", raised |-> FALSE, logs |-> <<>>, stats |-> <<>>]

(***************************************************************************)
(* Pipeline                                                                *)
(***************************************************************************)
CHUNK_SIZE == 500
TOP_K_DOCS == 3

\* _setup_pipeline run on a directory, with the files of MODEL_DIR and the
\* failure build_index meets: the store it leaves, and did it raise
setup_pipeline(dir, files, fail) ==
    LET docs == load_documents(dir, <<>>).ret
        empty == [index |-> NoIndex, chunks |-> <<>>, fs |-> files]
    IN IF docs = <<>>
       THEN [index |-> NoIndex, chunks |-> <<>>, fs |-> files, raised |-> FALSE,
             documents |-> load_documents(dir, <<>>).documents]
       ELSE LET r == build_index(empty, chunk_documents(docs, <<>>, CHUNK_SIZE),
                                 CachePath, fail)
            IN [index |-> r.index, chunks |-> r.chunks, fs |-> r.fs,
                raised |-> r.raised, documents |-> docs]

\* doc['content'][:n]
Prefix(s, n) == SubSeq(s, 1, IF Len(s) < n THEN Len(s) ELSE n)

\* _create_simple_response: the canned message when nothing was retrieved,
\* otherwise title and excerpt of every retrieved document
create_simple_response(query, retrieved_docs) ==
    IF retrieved_docs = <<>>
    THEN [kind |-> "not_found", parts |-> <<>>]
    ELSE [kind |-> "context",
          parts |-> [i \in 1..Len(retrieved_docs) |->
                       [title |-> retrieved_docs[i].metadata.title,
                        excerpt |-> Prefix(retrieved_docs[i].content, 300)]]]

\* the 'answer' of SanskritLLMGenerator.generate_response
generate_response(query, context_docs) ==
    [kind |-> "generated", parts |-> <<>>]

\* the dictionary returned at lines 89-95
success_envelope(question, retrieved_docs, response_text, elapsed_time) ==
    [query |-> question, retrieved_docs |-> retrieved_docs,
     response |-> response_text, latency |-> elapsed_time,
     num_docs_retrieved |-> Len(retrieved_docs)]

\* the dictionary returned at lines 103-107
error_envelope(question, error, elapsed_time) ==
    [query |-> question, error |-> error, latency |-> elapsed_time]

\* the handler of lines 97-107: log the failure, then return the error envelope
query_except(entries, file, question, error, elapsed_time, write2) ==
    LET l == log_query(entries, file, question, elapsed_time, 0, FALSE, write2)
    IN [logs |-> l.logs, log_file |-> l.log_file, raised |-> l.raised,
        envelope |-> IF l.raised THEN <<>>
                     ELSE error_envelope(question, error, elapsed_time)]

\* query(question, k, use_llm) on the pipeline p = [index, chunks, logs,
\* log_file].  env is what the call meets: modelFails, the embedding model
\* raises; llmFails, the generator raises; write1 and write2, the outcome of
\* the first and of the second _save_logs; elapsed_time, the time measured
query(p, question, k, use_llm, env) ==
    LET found == search(p.index, p.chunks, question, k, env.modelFails)
        response_text == IF use_llm THEN generate_response(question, found.results)
                         ELSE create_simple_response(question, found.results)
        l == log_query(p.logs, p.log_file, question, env.elapsed_time,
                       Len(found.results), TRUE, env.write1)
    IN IF found.error # "none"
       THEN query_except(p.logs, p.log_file, question, found.error,
                         env.elapsed_time, env.write2)
       ELSE IF use_llm /\ env.llmFails
       THEN query_except(p.logs, p.log_file, question, "generator",
                         env.elapsed_time, env.write2)
       ELSE IF l.raised
       THEN query_except(l.logs, l.log_file, question, "OSError",
                         env.elapsed_time, env.write2)
       ELSE [logs |-> l.logs, log_file |-> l.log_file, raised |-> FALSE,
             envelope |-> success_envelope(question, found.results, response_text,
                                           env.elapsed_time)]

PipeContents == {<<>>, <<"a">>, <<"a", "a", "\n", "\n", "a">>}
Questions == {<<"a">>}
Elapsed == {14, 15}

\* the directories the pipeline is constructed on
PipeDirs ==
    {[exists |-> FALSE, files |-> <<>>], [exists |-> TRUE, files |-> <<>>]}
    \cup {[exists |-> TRUE, files |-> <<File(TxtA, TRUE, c)>>] : c \in PipeContents}
    \cup {[exists |-> TRUE, files |-> <<File(TxtA, TRUE, c1), File(TxtB, TRUE, c2)>>] :
            c1 \in PipeContents, c2 \in PipeContents}

QueryRet(calls, raised, envelope, k, use_llm) ==
    [calls |-> calls, raised |-> raised, envelope |-> envelope, k |-> k,
     use_llm |-> use_llm]

NoQueryRet == QueryRet(0, FALSE, <<>>, 0, FALSE)

\* SanskritRAGPipeline(data_dir) constructed without raising: the loader has
\* loaded, the store is built (or left without index when there are no
\* documents), the logger has read its file
InitPipeline ==
    /\ data_dir \in PipeDirs
    /\ \E fail \in {"none", "add"} :
         LET s == setup_pipeline(data_dir, [p \in Paths |-> NoFile], fail)
         IN /\ fail \in BuildFailures([index |-> NoIndex, chunks |-> <<>>,
                                       fs |-> [p \in Paths |-> NoFile]],
                                      s.chunks, CachePath)
            /\ ~s.raised
            /\ documents = s.documents
            /\ index = s.index
            /\ chunks = s.chunks
            /\ fs = s.fs
            /\ built = s.index.present
    /\ loaderRet = NoRet
    /\ storeRet = NoStoreRet
    /\ log_file \in {MissingLog, CorruptLog,
                     ValidLog(<<log_entry(<<"a">>, 14, 0, FALSE)>>)}
    /\ logs = load_existing_logs(log_file)
    /\ queryRet = NoQueryRet
    /\ statsRet = NoStatsRet

Query ==
    /\ queryRet.calls < MaxQueries
    /\ \E question \in Questions, k \in {1, TOP_K_DOCS}, use_llm \in BOOLEAN,
          modelFails \in BOOLEAN, llmFails \in BOOLEAN,
          write1 \in Writes, write2 \in Writes, elapsed_time \in Elapsed :
         \* the language model can fail only where it is called
         /\ llmFails => use_llm
         /\ LET r == query([index |-> index, chunks |-> chunks, logs |-> logs,
                            log_file |-> log_file], question, k, use_llm,
                           [modelFails |-> modelFails, llmFails |-> llmFails,
                            write1 |-> write1, write2 |-> write2,
                            elapsed_time |-> elapsed_time])
            IN /\ logs' = r.logs
               /\ log_file' = r.log_file
               /\ queryRet' = QueryRet(queryRet.calls + 1, r.raised, r.envelope, k,
                                       use_llm)
    /\ UNCHANGED <<loaderVars, storeVars, statsRet>>

\* print_statistics(), as interactive_mode calls it on quit
PrintStatistics ==
    /\ statsRet' = [op |-> "print", raised |-> print_statistics(logs).raised,
                    logs |-> logs, stats |-> print_statistics(logs).stats]
    /\ UNCHANGED <<loaderVars, storeVars, logs, log_file, queryRet>>

(***************************************************************************)
(* Specifications                                                          *)
(***************************************************************************)
\* a fresh SanskritDocumentLoader(data_dir); no store, no pipeline
InitLoader ==
    /\ data_dir \in Dirs
    /\ documents = <<>>
    /\ loaderRet = NoRet
    /\ index = NoIndex
    /\ chunks = <<>>
    /\ fs = [p \in Paths |-> NoFile]
    /\ storeRet = NoStoreRet
    /\ built = FALSE
    /\ logs = <<>>
    /\ log_file = MissingLog
    /\ queryRet = NoQueryRet
    /\ statsRet = NoStatsRet

NextLoader ==
    \/ LoadDocuments /\ UNCHANGED <<storeVars, pipeVars>>
    \/ ChunkDocuments /\ UNCHANGED <<storeVars, pipeVars>>

SpecLoader == InitLoader /\ [][NextLoader]_vars

NextStore ==
    \/ NewStore /\ UNCHANGED <<loaderVars, pipeVars>>
    \/ BuildIndex /\ UNCHANGED <<loaderVars, pipeVars>>
    \/ Search /\ UNCHANGED <<loaderVars, pipeVars>>
    \/ SaveIndex /\ UNCHANGED <<loaderVars, pipeVars>>
    \/ LoadIndex /\ UNCHANGED <<loaderVars, pipeVars>>

SpecStore == InitStore /\ [][NextStore]_vars

NextPipeline ==
    \/ Query
    \/ PrintStatistics

SpecPipeline == InitPipeline /\ [][NextPipeline]_vars

(***************************************************************************)
(* Properties                                                              *)
(***************************************************************************)
\* the non-empty trimmed paragraphs of a text, in order
RECURSIVE NonEmptyStripped(_)
NonEmptyStripped(pieces) ==
    IF pieces = <<>> THEN <<>>
    ELSE IF strip(Head(pieces)) = <<>> THEN NonEmptyStripped(Tail(pieces))
    ELSE <<strip(Head(pieces))>> \o NonEmptyStripped(Tail(pieces))

Paragraphs(text) == NonEmptyStripped(split(text, NLNL))

\* the keys of an envelope; none when query raised instead of returning
Keys(envelope) == IF envelope = <<>> THEN {} ELSE DOMAIN envelope

IsQueryStep == queryRet'.calls = queryRet.calls + 1

\* C1: every query call appends exactly one entry to the performance log, so
\* total_queries of get_statistics grows by exactly 1 per call
C1_OneEntryPerQuery ==
    [][IsQueryStep =>
         /\ Len(logs') = Len(logs) + 1
         /\ get_statistics(logs').total_queries
              = get_statistics(logs).total_queries + 1]_vars

\* C2: no exception escapes query: whatever search, the synthesizer and the
\* log write do, query returns an envelope
C2_NoExceptionEscapes ==
    queryRet.calls > 0 => ~queryRet.raised /\ queryRet.envelope # <<>>

\* the index holds one vector per chunk, vector i the embedding of chunk i
Aligned ==
    /\ Len(index.vectors) = Len(chunks)
    /\ \A i \in 1..Len(chunks) : index.vectors[i] = Embed(chunks[i].content)

\* how often x occurs in the sequence s
Occurrences(s, x) == Cardinality({i \in 1..Len(s) : s[i] = x})

\* C3: on a built index with n chunks, search(query, k) returns at most
\* min(k, n) results, each a distinct indexed chunk, by non-decreasing
\* distance; with k > n it returns exactly the n chunks and no error.
\* Stated for n >= 1 and a query the embedding model accepts, where the
\* outcome does not hang on how the libraries treat an empty array
C3_SearchBounded ==
    (storeRet.op = "search" /\ storeRet.error # "model" /\ built
        /\ index.present /\ Aligned /\ Len(chunks) >= 1)
    => LET r == storeRet.results
           n == Len(chunks)
           hit(i) == [content |-> r[i].content, metadata |-> r[i].metadata]
       IN /\ ~storeRet.raised
          /\ Len(r) <= Min(storeRet.k, n)
          /\ storeRet.k > n => Len(r) = n
          /\ \A i \in 1..Len(r) :
                /\ Occurrences(chunks, hit(i)) >= 1
                /\ Cardinality({j \in 1..Len(r) : hit(j) = hit(i)})
                     <= Occurrences(chunks, hit(i))
          /\ \A i \in 1..(Len(r) - 1) : r[i].distance <= r[i + 1].distance

\* the answer text of a success envelope, under whichever key carries it
AnswerOf(envelope) ==
    IF "answer" \in Keys(envelope) THEN envelope.answer ELSE envelope.response

\* C4: a query with use_llm = false on a pipeline constructed over a
\* directory without documents returns a success envelope with no retrieved
\* document and the canned "not found" answer
C4_EmptyCorpusNotFound ==
    (queryRet.calls > 0 /\ documents = <<>> /\ ~queryRet.use_llm)
    => /\ ~queryRet.raised
       /\ "error" \notin Keys(queryRet.envelope)
       /\ queryRet.envelope.retrieved_docs = <<>>
       /\ AnswerOf(queryRet.envelope).kind = "not_found"

\* C5: whenever an index is present it holds exactly one vector per element
\* of self.chunks, the vector at position i being the embedding of chunk i
C5_Alignment == index.present => Aligned

\* C6: every chunk chunk_documents emits is at most chunk_size long, unless
\* it is a single paragraph that is itself longer than chunk_size
C6_ChunkSizeBound ==
    loaderRet.op = "chunk" =>
        \A i \in 1..Len(loaderRet.value) :
            LET c == loaderRet.value[i].content
            IN \/ Len(c) <= loaderRet.chunk_size
               \/ /\ Len(Paragraphs(c)) = 1
                  /\ Len(Paragraphs(c)[1]) > loaderRet.chunk_size

\* a chunk_documents call that packed two paragraphs into a chunk exactly
\* chunk_size long
C6_Witness ==
    /\ loaderRet.op = "chunk"
    /\ \E i \in 1..Len(loaderRet.value) :
          /\ Len(Paragraphs(loaderRet.value[i].content)) = 2
          /\ Len(loaderRet.value[i].content) = loaderRet.chunk_size

\* the paragraphs of a run of chunks, chunk after chunk
RECURSIVE ChunkParagraphs(_)
ChunkParagraphs(chs) ==
    IF chs = <<>> THEN <<>>
    ELSE Paragraphs(Head(chs).content) \o ChunkParagraphs(Tail(chs))

\* the length of the run of chunks that opens chs and belongs to one
\* document: up to the next chunk numbered 0
RunLength(chs) ==
    LET next == {j \in 2..Len(chs) : chs[j].metadata.chunk_id = 0}
    IN IF next = {} THEN Len(chs)
       ELSE (CHOOSE j \in next : \A m \in next : j <= m) - 1

\* document by document, the chunks carry the document's paragraphs
RECURSIVE Reassembles(_, _)
Reassembles(docs, chs) ==
    IF docs = <<>> THEN chs = <<>>
    ELSE IF Paragraphs(Head(docs).content) = <<>> THEN Reassembles(Tail(docs), chs)
    ELSE /\ chs # <<>>
         /\ ChunkParagraphs(SubSeq(chs, 1, RunLength(chs)))
              = Paragraphs(Head(docs).content)
         /\ Reassembles(Tail(docs), SubSeq(chs, RunLength(chs) + 1, Len(chs)))

\* C7: for every document, the contents of its chunks in chunk_id order give
\* the same sequence of non-empty trimmed paragraphs as the original
\* content: none lost, duplicated, split or reordered
C7_ParagraphsPreserved ==
    loaderRet.op = "chunk" => Reassembles(documents, loaderRet.value)

\* a chunk_documents call that cut one document into several chunks
C7_Witness ==
    /\ loaderRet.op = "chunk"
    /\ Len(documents) = 1
    /\ Len(loaderRet.value) >= 2
    /\ Len(Paragraphs(documents[1].content)) >= 2

\* C8: a fresh build_index that writes the cache, followed by build_index on
\* the same chunks and cache_path, which loads it, leaves the same vectors
\* in the same order, and search answers the same on both
C8_CacheRoundTrip ==
    [][(/\ storeRet.op = "build" /\ storeRet.cache = "written" /\ ~storeRet.raised
        /\ storeRet'.op = "build" /\ storeRet'.cache = "loaded" /\ ~storeRet'.raised
        /\ storeRet'.cache_path = storeRet.cache_path
        /\ chunks' = chunks)
       => /\ index' = index
          /\ \A q \in Queries, k \in 1..MaxK :
                search(index', chunks', q, k, FALSE) = search(index, chunks, q, k, FALSE)]_vars

\* a build_index that loaded the cache its own chunk list had produced
C8_Witness ==
    /\ storeRet.op = "build" /\ storeRet.cache = "loaded" /\ ~storeRet.raised
    /\ fs[storeRet.cache_path].origin = chunks
    /\ Len(chunks) >= 2
    /\ index.present

\* C9: every envelope has query, retrieved_docs, latency and
\* num_docs_retrieved, plus exactly one of answer and error
C9_EnvelopeFields ==
    (queryRet.calls > 0 /\ ~queryRet.raised)
    => /\ {"query", "retrieved_docs", "latency", "num_docs_retrieved"}
            \subseteq Keys(queryRet.envelope)
       /\ ("answer" \in Keys(queryRet.envelope)) # ("error" \in Keys(queryRet.envelope))

\* C10: a search issued before any build_index call of the store has
\* completed fails with an error and returns no results
C10_SearchBeforeBuildFails ==
    (storeRet.op = "search" /\ ~built) => storeRet.raised /\ storeRet.results = <<>>

\* C11: the log entries a query call writes agree with the envelope it
\* returns: with an error envelope the log gained only an entry with
\* success = false and num_docs_retrieved = 0, with a success envelope only
\* an entry with success = true and the envelope's number of retrieved docs
C11_LogAgreesWithEnvelope ==
    [][(IsQueryStep /\ ~queryRet'.raised)
       => LET gained == SubSeq(logs', Len(logs) + 1, Len(logs'))
              envelope == queryRet'.envelope
          IN /\ SubSeq(logs', 1, Len(logs)) = logs
             /\ Len(gained) = 1
             /\ IF "error" \in Keys(envelope)
                THEN ~gained[1].success /\ gained[1].num_docs_retrieved = 0
                ELSE /\ gained[1].success
                     /\ gained[1].num_docs_retrieved = Len(envelope.retrieved_docs)
                     /\ gained[1].num_docs_retrieved = envelope.num_docs_retrieved]_vars

\* the latencies of the successful entries of a log, as a set of positions
Successful(entries) == {i \in 1..Len(entries) : entries[i].success}

RECURSIVE SumOver(_, _)
SumOver(entries, positions) ==
    IF positions = {} THEN 0
    ELSE LET i == CHOOSE i \in positions : TRUE
         IN entries[i].latency_seconds + SumOver(entries, positions \ {i})

\* C12: for every log, the empty one and one without successful entry
\* included, get_statistics returns the count, the success rate and the
\* average, minimum and maximum latency, the three taken over the successful
\* entries only; print_statistics therefore never fails
C12_StatisticsComplete ==
    statsRet.op = "print" =>
        LET st == statsRet.stats
            ok == Successful(statsRet.logs)
            n == Len(statsRet.logs)
        IN /\ ~statsRet.raised
           /\ {"total_queries", "success_rate", "average_latency", "min_latency",
               "max_latency"} \subseteq DOMAIN st
           /\ st.total_queries = n
           /\ st.success_rate.num * n = Cardinality(ok) * 100 * st.success_rate.den
           /\ ok # {} =>
                /\ st.average_latency.num * Cardinality(ok)
                     = SumOver(statsRet.logs, ok) * st.average_latency.den
                /\ \E i \in ok : st.min_latency = statsRet.logs[i].latency_seconds
                /\ \A i \in ok : st.min_latency <= statsRet.logs[i].latency_seconds
                /\ \E i \in ok : st.max_latency = statsRet.logs[i].latency_seconds
                /\ \A i \in ok : st.max_latency >= statsRet.logs[i].latency_seconds

\* the number of chunks that opens chs and carries the first nparas
\* paragraphs: the chunks of the document that has these paragraphs
DocRun(chs, nparas) ==
    IF nparas = 0 THEN 0
    ELSE LET enough == {n \in 1..Len(chs) :
                          Len(ChunkParagraphs(SubSeq(chs, 1, n))) >= nparas}
         IN IF enough = {} THEN Len(chs)
            ELSE CHOOSE n \in enough : \A m \in enough : n <= m

\* document by document, the chunks of the document are numbered from 0
RECURSIVE NumberedPerDocument(_, _)
NumberedPerDocument(docs, chs) ==
    IF docs = <<>> THEN TRUE
    ELSE LET n == DocRun(chs, Len(Paragraphs(Head(docs).content)))
         IN /\ \A i \in 1..n : chs[i].metadata.chunk_id = i - 1
            /\ NumberedPerDocument(Tail(docs), SubSeq(chs, n + 1, Len(chs)))

\* C13: the chunks of a document that yields n >= 1 chunks carry, in emission
\* order, the chunk_id values 0, 1, ..., n-1, and the numbering restarts at 0
\* with the next document
C13_ChunkIdsPerDocument ==
    loaderRet.op = "chunk" => NumberedPerDocument(documents, loaderRet.value)

\* a chunk_documents call over two documents, the first cut into several
\* chunks, so that a chunk numbered 1 or more is followed by the next
\* document's chunk 0
C13_Witness ==
    /\ loaderRet.op = "chunk"
    /\ Len(documents) >= 2
    /\ \E i \in 1..(Len(loaderRet.value) - 1) :
          /\ loaderRet.value[i].metadata.chunk_id >= 1
          /\ loaderRet.value[i + 1].metadata.chunk_id = 0
          /\ DocRun(loaderRet.value, Len(Paragraphs(documents[1].content))) = i

\* the first line of a text that holds more than whitespace
FirstNonEmptyLine(text) ==
    LET lines == split(text, NL)
        full == {i \in 1..Len(lines) : strip(lines[i]) # <<>>}
    IN lines[CHOOSE i \in full : \A j \in full : i <= j]

\* C14: the title of a loaded document is the first non-empty line of its
\* content with the whitespace runs collapsed to single spaces, and the
\* filename when the content is empty or only whitespace
C14_Title ==
    loaderRet.op = "load" =>
        \A i \in 1..Len(loaderRet.value) :
            LET doc == loaderRet.value[i]
            IN doc.metadata.title =
                 IF strip(doc.content) = <<>> THEN doc.metadata.source
                 ELSE join(split_ws(FirstNonEmptyLine(doc.content)), SP)

\* the .txt files of a directory that can be read, in the order of the listing
RECURSIVE ReadableTxt(_)
ReadableTxt(files) ==
    IF files = <<>> THEN <<>>
    ELSE IF endswith(Head(files).filename, DotTxt) /\ Head(files).readable
         THEN <<Head(files)>> \o ReadableTxt(Tail(files))
         ELSE ReadableTxt(Tail(files))

\* C15: every call of load_documents, a second or later one on the same
\* loader over the unchanged directory included, returns exactly one Document
\* for each .txt file that can be read and none for a file whose read fails;
\* a missing directory gives the empty sequence
C15_OneDocumentPerFile ==
    loaderRet.op = "load" =>
        LET expected == IF data_dir.exists THEN ReadableTxt(data_dir.files) ELSE <<>>
        IN /\ Len(loaderRet.value) = Len(expected)
           /\ \A i \in 1..Len(expected) :
                 /\ loaderRet.value[i].filename = expected[i].filename
                 /\ loaderRet.value[i].content = expected[i].content

====
